---- MODULE Spec2Model ----
(***************************************************************************)
(* A model of run_backup.py: the upload pipeline (main, the thread pool,   *)
(* upload, _chunk_upload, _auto_retry, _get_server_file_size) and the      *)
(* relocation pass (_fix_server_path, _fix_file), against a remote store   *)
(* with path-addressed objects, upload sessions and autorename.            *)
(*                                                                         *)
(* Byte counts are in units of 4 MiB, so the 8 MiB chunk is 2 units.       *)
(* Remote paths are triples <<folder, name, n>>: the folder is "P" for the *)
(* destination prefix of the file's directory and "Q" for a date folder    *)
(* other than the prefix, the name is the file, and n > 0 is the suffix    *)
(* the server adds when it auto-renames ("name (n)").  Paths are the       *)
(* server's case-normalised keys (path_lower).                             *)
(***************************************************************************)
EXTENDS Integers, Sequences, FiniteSets, TLC

MAX_UPLOAD_CHUNK_SIZE == 2
MAX_RETRY_COUNT_ON_NETWORK_ERROR == 10

MaxFileSize == 7
MaxFiles == 2
MaxThreads == 2
MaxRuns == 2
MaxLostReplies == 1

Files == 1..MaxFiles
Workers == 1..MaxThreads
Dirs == 1..MaxFiles
\* No error, where an error may be; no path, where a path may be (Python's None
\* and ""); the ApiError of a lookup of a path that holds no object.
None == "None"
NoPath == <<>>
NotFound == -1
Unchecked == 0 - 1

VARIABLES
  is_delete,   \* args.delete
  threads,     \* args.threads
  library,     \* the files of the local library when the program was first run
  size,        \* size[f]: byte size of local file f
  stamp,       \* stamp[f]: what the capture-time extraction gives for f
  dirOf,       \* dirOf[f]: the library directory holding f
  exists,      \* exists[f]: f is on the local disk
  dirs,        \* the library directories on the local disk
  remote,      \* the remote store: path -> size of the object at that path
  sessions,    \* the server's upload sessions, indexed by session id
  run,         \* how many times the program has been started
  mainpc,      \* where main() is: "walk", "map", "done" or "raised"
  dir,         \* the directory os.walk is at
  queue,       \* the params of the current pool.map not yet taken by a worker
  failed,      \* a task of the current pool.map has raised
  worker,      \* worker[w]: the locals of upload() in pool thread w
  result,      \* result[f]: how upload() ended for f in this run
  backed,      \* backed[f]: an earlier run uploaded f and verified its size
  obs,         \* obs[f]: what was observed of the latest upload() of f
  probe,       \* one _auto_retry call followed pass by pass
  fix          \* the locals of _fix_server_path() and what it did

vars == <<is_delete, threads, library, size, stamp, dirOf, exists, dirs, remote,
          sessions, run, mainpc, dir, queue, failed, worker, result, backed, obs,
          probe, fix>>

local == <<is_delete, threads, library, size, stamp, dirOf, backed, probe, fix>>

others == <<is_delete, threads, library, size, stamp, dirOf, exists, dirs, sessions, run,
            dir, queue, failed, worker, result, backed, obs, probe>>

-----------------------------------------------------------------------------
(* Helpers on sequences and functions *)

RECURSIVE SeqOfSet(_)
SeqOfSet(S) ==
  IF S = {} THEN <<>>
  ELSE LET m == CHOOSE x \in S : \A y \in S : x <= y
       IN <<m>> \o SeqOfSet(S \ {m})

Last(s) == s[Len(s)]

-----------------------------------------------------------------------------
(* The remote store *)

\* files_get_metadata(path).size; NotFound stands for the ApiError of a lookup
\* of a path that holds no object.
files_get_metadata(store, path) ==
  IF path \in DOMAIN store THEN store[path] ELSE NotFound

\* def _get_server_file_size: the size, or 0 when the lookup raises ApiError.
_get_server_file_size(store, path) ==
  IF files_get_metadata(store, path) = NotFound THEN 0
  ELSE files_get_metadata(store, path)

\* autorename=True, mode add: the object lands at the requested path when it is
\* free and at the first free "name (n)" otherwise.
LandingPath(store, path) ==
  IF path \notin DOMAIN store THEN path
  ELSE LET n == CHOOSE k \in 1..(Cardinality(DOMAIN store) + 1) :
                  /\ <<path[1], path[2], k>> \notin DOMAIN store
                  /\ \A j \in 1..(k - 1) : <<path[1], path[2], j>> \in DOMAIN store
       IN <<path[1], path[2], n>>

\* The sizes the store may report for an object committed with n bytes: n, or,
\* when the server is inconsistent (the case the post-upload check is for), less.
StoredSizes(n) == {n} \cup (IF n > 0 THEN {n - 1} ELSE {})

Commit(store, path, stored) == (LandingPath(store, path) :> stored) @@ store

\* files_upload_session_start(data): a new session holding the data.
SessionStarted(sess, w, d) ==
  Append(sess, [by |-> w, cursor |-> d.len, chunks |-> <<d>>, closed |-> FALSE])

\* SessionAccepts without the comparison of the offset with the cursor
SessionAcceptsAnyOffset(sess, sid, offset) ==
  /\ sid \in DOMAIN sess
  /\ ~sess[sid].closed

\* The server takes an append or a finish only on an open session and at its cursor.
SessionAccepts(sess, sid, offset) ==
  /\ sid \in DOMAIN sess
  /\ ~sess[sid].closed
  /\ sess[sid].cursor = offset

SessionAppended(sess, sid, d) ==
  [sess EXCEPT ![sid].cursor = @ + d.len, ![sid].chunks = Append(@, d)]

SessionFinished(sess, sid, d) ==
  [sess EXCEPT ![sid].cursor = @ + d.len, ![sid].chunks = Append(@, d),
               ![sid].closed = TRUE]

-----------------------------------------------------------------------------
(* The pure parts of upload(), _chunk_upload() and _auto_retry() *)

\* dest_full_path = "{}/{}".format(server_path, file_name)
dest_full_path(f) == <<"P", f, 0>>

\* def _get_svr_path_from_metadata, when the extraction does not raise: None
\* without a time stamp, else "/Photos/<year>/<month>/<day>/<basename>".
_get_svr_path_from_metadata(f) ==
  IF stamp[f] = "NoTag" THEN NoPath ELSE <<stamp[f], f, 0>>

\* if _get_server_file_size(dbx, dest_full_path) == file_size
DirectMatches(direct_size, file_size) == direct_size = file_size

\* or (meta_svr_path and ...): the second lookup is made only for a canonical path
MetaLookupNeeded(meta_svr_path) == meta_svr_path # NoPath

\* MetaMatches with the canonical-path comparison left out of the condition
MetaNeverMatches(meta_size, file_size) == FALSE

\* _get_server_file_size(dbx, meta_svr_path) == file_size
MetaMatches(meta_size, file_size) == meta_size = file_size

\* if file_size > MAX_UPLOAD_CHUNK_SIZE: _chunk_upload, else files_upload
IsChunked(file_size) == file_size > MAX_UPLOAD_CHUNK_SIZE

\* file_obj.read(n) at position tell of a file of file_size bytes: the bytes read
Read(f, file_size, tell, n) ==
  [file |-> f, from |-> tell,
   len |-> IF file_size - tell < n THEN file_size - tell ELSE n]

\* IsLastChunk with < for <=
IsLastChunkStrict(file_size, tell) == (file_size - tell) < MAX_UPLOAD_CHUNK_SIZE

\* if (file_size - file_obj.tell()) <= MAX_UPLOAD_CHUNK_SIZE: the finish branch
IsLastChunk(file_size, tell) == (file_size - tell) <= MAX_UPLOAD_CHUNK_SIZE

\* AdvanceCursor with the assignment left out: the cursor keeps its offset
StaleCursor(offset, tell) == offset

\* cursor.offset = file_obj.tell(), after an append
AdvanceCursor(offset, tell) == tell

\* except (requests.exceptions.ConnectionError, urllib3.exceptions.ProtocolError)
IsTransient(err) == err \in {"ConnectionError", "ProtocolError"}

\* RetryExhausted with the ceiling one too high
RetryExhaustedLate(retry_count) == retry_count = MAX_RETRY_COUNT_ON_NETWORK_ERROR + 1

\* if retry_count == MAX_RETRY_COUNT_ON_NETWORK_ERROR
RetryExhausted(retry_count) == retry_count = MAX_RETRY_COUNT_ON_NETWORK_ERROR

\* print("Error: ...").format(...) before the raise: print returns None, and
\* None has no attribute format, so this statement raises AttributeError.
ReportFailure(err) == "AttributeError"

\* One pass of the loop of _auto_retry, for an invocation of func that ended
\* with err (None: it returned): return, go round again, or raise.
Handle(retry_count, err) ==
  IF err = None THEN [act |-> "return", exc |-> None, retry_count |-> retry_count]
  ELSE IF IsTransient(err) THEN
    IF RetryExhausted(retry_count + 1)
    THEN [act |-> "raise", exc |-> ReportFailure(err), retry_count |-> retry_count + 1]
    ELSE [act |-> "retry", exc |-> None, retry_count |-> retry_count + 1]
  ELSE [act |-> "raise", exc |-> err, retry_count |-> retry_count]

\* What the network and the API do to one invocation: "ok" the request is
\* served and answered, "reject" the API refuses it (quota, permission),
\* "lost" and "reset" the connection fails before the request is served
\* (ConnectionError, ProtocolError), "reply_lost" it fails after.
Served(net) == net \in {"ok", "reply_lost"}

NetError(net) ==
  CASE net = "reject" -> "ApiError"
    [] net = "lost" -> "ConnectionError"
    [] net = "reply_lost" -> "ConnectionError"
    [] net = "reset" -> "ProtocolError"
    [] OTHER -> None

\* The server's handling of one request on the store srv: the new store, the
\* error it answers with and the reply (a session id, or the path of the
\* object committed).
Serve(srv, req) ==
  CASE req.name = "session_start" ->
         LET started == SessionStarted(srv.sessions, req.by, req.data)
         IN [srv |-> [srv EXCEPT !.sessions = started], err |-> None,
             reply |-> <<Len(started)>>]
    [] req.name = "session_append" ->
         IF SessionAccepts(srv.sessions, req.session_id, req.offset)
         THEN [srv |-> [srv EXCEPT !.sessions = SessionAppended(@, req.session_id, req.data)],
               err |-> None, reply |-> NoPath]
         ELSE [srv |-> srv, err |-> "ApiError", reply |-> NoPath]
    [] req.name = "session_finish" ->
         IF SessionAccepts(srv.sessions, req.session_id, req.offset)
         THEN [srv |-> [remote |-> Commit(srv.remote, req.path, req.stored),
                        sessions |-> SessionFinished(srv.sessions, req.session_id, req.data)],
               err |-> None, reply |-> LandingPath(srv.remote, req.path)]
         ELSE [srv |-> srv, err |-> "ApiError", reply |-> NoPath]
    [] OTHER ->
         [srv |-> [srv EXCEPT !.remote = Commit(@, req.path, req.stored)],
          err |-> None, reply |-> LandingPath(srv.remote, req.path)]

\* One invocation func(*args, **kwargs) of the remote call req over a network
\* that does net to it.
Invoke(srv, req, net) ==
  LET served == IF Served(net) THEN Serve(srv, req)
                ELSE [srv |-> srv, err |-> None, reply |-> NoPath]
  IN [srv |-> served.srv,
      err |-> IF NetError(net) # None THEN NetError(net) ELSE served.err,
      reply |-> served.reply]

\* def _auto_retry(func, *args, **kwargs): the loop, for the remote call req on
\* the store srv, when the network does nets[i] to the i-th invocation (and
\* works after the last).  The result holds how the call ended (act, exc), the
\* reply returned, the store left, the number n of invocations made and the
\* error err of the last one.
RECURSIVE _auto_retry(_, _, _, _, _)
_auto_retry(srv, req, nets, retry_count, n) ==
  LET inv == Invoke(srv, req, IF nets = <<>> THEN "ok" ELSE Head(nets))
      h == Handle(retry_count, inv.err)
  IN IF h.act = "retry"
     THEN _auto_retry(inv.srv, req, IF nets = <<>> THEN <<>> ELSE Tail(nets),
                      h.retry_count, n + 1)
     ELSE [act |-> h.act, exc |-> h.exc, reply |-> inv.reply, srv |-> inv.srv,
           n |-> n + 1, err |-> inv.err]

\* NothingUploaded with the early return left out
AlwaysUploaded(uploaded_full_path) == FALSE

\* if not uploaded_full_path: return
NothingUploaded(uploaded_full_path) == uploaded_full_path = NoPath

\* SizeMismatch with the comparison left out
NeverMismatch(uploaded_size, file_size) == FALSE

\* if uploaded_size != file_size: raise Exception(...)
SizeMismatch(uploaded_size, file_size) == uploaded_size # file_size

\* if is_delete: os.remove(local_full_path)
Removes(delete_flag) == delete_flag

\* How upload() ends for an exception exc raised under its try: ApiError is
\* logged and the function returns, OSError is logged and raised again, any
\* other propagates.
UploadEnd(exc) ==
  CASE exc = "ApiError" -> "rejected"
    [] exc = "OSError" -> "ioerror"
    [] exc = "AttributeError" -> "exhausted"
    [] OTHER -> "neterror"

Raising == {"metaerror", "neterror", "exhausted", "mismatch", "ioerror"}
Returning == {"skipped", "uploaded", "rejected"}

-----------------------------------------------------------------------------
(* State *)

Idle ==
  [pc |-> "idle", file |-> 0, file_size |-> 0, meta_svr_path |-> NoPath,
   tell |-> 0, data |-> Read(0, 0, 0, 0), session_id |-> 0, offset |-> 0,
   uploaded_full_path |-> NoPath, lost |-> 0]

NoRetry == [call |-> "none", err |-> None, exc |-> None]

\* obs[f]: the objects at the two candidate paths when upload() began, the remote
\* calls upload() issued, the progress lines, the size the verification got, the
\* path the server returned, how the _auto_retry call that ended in the last step
\* ended, whether the local file was removed.
NoObs ==
  [direct |-> NotFound, canon |-> NotFound, calls |-> <<>>, progress |-> <<>>,
   checked |-> Unchecked, uploaded |-> NoPath, retry |-> NoRetry, removed |-> FALSE]

Call(name, path, d, offset) ==
  [name |-> name, path |-> path, bytes |-> d.len, offset |-> offset]

NoResult == [f \in Files |-> "none"]

NoProbe ==
  [scenario |-> <<>>, nets |-> <<>>, srv |-> [remote |-> <<>>, sessions |-> <<>>],
   retry_count |-> 0, n |-> 0, seen |-> <<>>, act |-> "off", exc |-> None,
   reply |-> NoPath]

NoFix ==
  [pc |-> "off", pages |-> <<>>, entries |-> <<>>, has_more |-> FALSE, idx |-> 0,
   fetched |-> 0, moves |-> <<>>, seen |-> <<>>]

\* The sizes an object found at a candidate path of a file of s bytes may have:
\* those that differ from s by one of offs.
Nearby(s, offs) == {t \in 0..MaxFileSize : t - s \in offs}

Stamps == {"NoTag", "Error", "P", "Q"}

\* The remote stores the program may find: at the destination path of each file
\* nothing or an object, and at its canonical path, when that is another path,
\* nothing or an object.
InitialStores(lib, sz, st, offs) ==
  LET One(f) ==
        LET D == {<<>>} \cup {(dest_full_path(f) :> t) : t \in Nearby(sz[f], offs)}
            Q == {<<>>} \cup (IF st[f] = "Q"
                              THEN {(<<"Q", f, 0>> :> t) : t \in Nearby(sz[f], offs)}
                              ELSE {})
        IN {d @@ q : d \in D, q \in Q}
      RECURSIVE All(_)
      All(S) == IF S = {} THEN {<<>>}
                ELSE LET f == CHOOSE x \in S : TRUE
                     IN {a @@ b : a \in One(f), b \in All(S \ {f})}
  IN All(lib)

InitLibrary(lib, sizes, stamps, offs, maxthreads) ==
  /\ library = lib
  /\ is_delete \in BOOLEAN
  /\ threads \in 1..maxthreads
  /\ size \in [Files -> sizes]
  /\ \A f \in Files \ lib : size[f] = CHOOSE s \in sizes : TRUE
  /\ stamp \in [Files -> stamps]
  /\ \A f \in Files \ lib : stamp[f] = CHOOSE s \in stamps : TRUE
  /\ dirOf \in [Files -> Dirs]
  /\ \A f \in Files : dirOf[f] <= f /\ (f > 1 => dirOf[f] \in {dirOf[f - 1], dirOf[f - 1] + 1})
  /\ \A f \in Files \ lib : dirOf[f] = dirOf[CHOOSE g \in lib : TRUE]
  /\ exists = [f \in Files |-> f \in lib]
  /\ dirs = {dirOf[f] : f \in lib}
  /\ remote \in InitialStores(lib, size, stamp, offs)
  /\ sessions = <<>>
  /\ run = 1
  /\ mainpc = "walk"
  /\ dir = 1
  /\ queue = <<>>
  /\ failed = FALSE
  /\ worker = [w \in Workers |-> Idle]
  /\ result = NoResult
  /\ backed = [f \in Files |-> FALSE]
  /\ obs = [f \in Files |-> NoObs]
  /\ probe = NoProbe
  /\ fix = NoFix

\* One file, every size, every outcome of the extraction, one pool thread.
Init == InitLibrary({1}, 0..MaxFileSize, Stamps, {-1, 0, 1}, 1)

-----------------------------------------------------------------------------
(* main() and the pool *)

FilesIn(d) == {f \in library : dirOf[f] = d /\ exists[f]}

\* try: os.rmdir(path) except OSError: the directory goes only when it is empty
Rmdir(ds, d, ex) ==
  IF \E f \in library : dirOf[f] = d /\ ex[f] THEN ds ELSE ds \ {d}

\* for path, _, files in os.walk(...): one directory of the library.  With files,
\* the params are built and handed to pool.map; without, only the rmdir is left.
MainWalk ==
  /\ mainpc = "walk"
  /\ IF dir > MaxFiles
     THEN /\ mainpc' = "done"
          /\ UNCHANGED <<dir, queue, failed, dirs>>
     ELSE IF dir \in dirs /\ FilesIn(dir) # {}
     THEN /\ mainpc' = "map"
          /\ queue' = SeqOfSet(FilesIn(dir))
          /\ failed' = FALSE
          /\ UNCHANGED <<dir, dirs>>
     ELSE /\ dir' = dir + 1
          /\ dirs' = IF is_delete /\ dir \in dirs THEN Rmdir(dirs, dir, exists) ELSE dirs
          /\ UNCHANGED <<mainpc, queue, failed>>
  /\ UNCHANGED <<local, exists, remote, sessions, run, worker, result, obs>>

\* pool.map returns once every task has ended; it raises the exception of a
\* task that raised, which main() does not catch.
MainMapDone ==
  /\ mainpc = "map"
  /\ queue = <<>>
  /\ \A w \in Workers : worker[w].pc = "idle"
  /\ IF failed
     THEN /\ mainpc' = "raised"
          /\ UNCHANGED <<dir, dirs>>
     ELSE /\ mainpc' = "walk"
          /\ dir' = dir + 1
          /\ dirs' = IF is_delete THEN Rmdir(dirs, dir, exists) ELSE dirs
  /\ UNCHANGED <<local, exists, remote, sessions, run, queue, failed, worker, result, obs>>

\* The program is started again on the same library.
StartRun ==
  /\ mainpc \in {"done", "raised"}
  /\ run < MaxRuns
  /\ run' = run + 1
  /\ mainpc' = "walk"
  /\ dir' = 1
  /\ queue' = <<>>
  /\ failed' = FALSE
  /\ result' = NoResult
  /\ backed' = [f \in Files |-> backed[f] \/ result[f] = "uploaded"]
  /\ obs' = [f \in Files |-> NoObs]
  /\ UNCHANGED <<is_delete, threads, library, size, stamp, dirOf, exists, dirs, remote,
                 sessions, worker, probe, fix>>

-----------------------------------------------------------------------------
(* upload(params), one step for each remote call *)

Ends(w, f, status) ==
  /\ worker' = [worker EXCEPT ![w] = Idle]
  /\ result' = [result EXCEPT ![f] = status]
  /\ failed' = (failed \/ status \in Raising)

Continues(w, wk) ==
  /\ worker' = [worker EXCEPT ![w] = wk]
  /\ UNCHANGED <<result, failed>>

\* if is_delete: os.remove(local_full_path), at the end of upload()
RemoveLocal(f) ==
  exists' = IF Removes(is_delete) THEN [exists EXCEPT ![f] = FALSE] ELSE exists

\* What follows the try block: return when nothing was uploaded, else verify.
AfterTry(w, wk, path) ==
  IF NothingUploaded(path)
  THEN Ends(w, wk.file, "rejected")
  ELSE Continues(w, [wk EXCEPT !.pc = "verify", !.uploaded_full_path = path])

\* An exception exc leaves _auto_retry inside the try block of upload().
Excepts(w, wk, exc) ==
  IF exc = "ApiError" THEN AfterTry(w, wk, NoPath) ELSE Ends(w, wk.file, UploadEnd(exc))

Repeat(x, k) == [i \in 1..k |-> x]

\* What the network may do to the invocations of one _auto_retry call of an
\* upload() that has lost k replies so far (of at most MaxLostReplies): requests
\* served with the reply lost, then no failure or failures up to the ceiling,
\* then a request served or rejected.
UploadNets(k) ==
  {Repeat("reply_lost", a) \o Repeat(x, b) \o <<last>> :
     a \in 0..(MaxLostReplies - k), x \in {"lost", "reset"},
     b \in {0, MAX_RETRY_COUNT_ON_NETWORK_ERROR}, last \in {"ok", "reject"}}

RepliesLost(nets) == Cardinality({i \in DOMAIN nets : nets[i] = "reply_lost"})

\* What a lookup made outside _auto_retry may meet.
ReadErrors == {None, "ConnectionError", "ProtocolError"}

\* Request with the cursor of the first pool thread used by every thread
RequestSharedCursor(name, w, wk, stored) ==
  [name |-> name, by |-> w, data |-> wk.data, session_id |-> worker[1].session_id,
   offset |-> worker[1].offset, path |-> dest_full_path(wk.file), stored |-> stored]

\* The remote call as upload() and _chunk_upload() build it from their locals.
Request(name, w, wk, stored) ==
  [name |-> name, by |-> w, data |-> wk.data, session_id |-> wk.session_id,
   offset |-> wk.offset, path |-> dest_full_path(wk.file), stored |-> stored]

Store == [remote |-> remote, sessions |-> sessions]

\* The call is logged, and how its _auto_retry ended.
Logged(ob, call, r) ==
  [ob EXCEPT !.calls = Append(@, call),
             !.retry = [call |-> call.name, err |-> r.err, exc |-> r.exc]]

\* A worker takes the next params: the head of upload() up to the first lookup.
TaskBegin(w) ==
  /\ mainpc = "map"
  /\ w <= threads
  /\ worker[w].pc = "idle"
  /\ queue # <<>>
  /\ LET f == Head(queue)
         seen == [NoObs EXCEPT !.direct = files_get_metadata(remote, dest_full_path(f)),
                               !.canon = IF stamp[f] \in {"P", "Q"}
                                         THEN files_get_metadata(remote, <<stamp[f], f, 0>>)
                                         ELSE NotFound]
     IN /\ queue' = Tail(queue)
        /\ obs' = [obs EXCEPT ![f] = seen]
        /\ IF stamp[f] = "Error"
           THEN /\ result' = [result EXCEPT ![f] = "metaerror"]
                /\ failed' = TRUE
                /\ UNCHANGED worker
           ELSE /\ worker' = [worker EXCEPT ![w] =
                                [Idle EXCEPT !.pc = "dedup_direct", !.file = f,
                                             !.file_size = size[f],
                                             !.meta_svr_path = _get_svr_path_from_metadata(f)]]
                /\ result' = [result EXCEPT ![f] = "running"]
                /\ UNCHANGED failed
  /\ UNCHANGED <<local, exists, dirs, remote, sessions, run, mainpc, dir>>

\* The already-exists branch: the message, then the removal when asked for.
Skips(w, f) ==
  /\ Ends(w, f, "skipped")
  /\ RemoveLocal(f)

\* _get_server_file_size(dbx, dest_full_path) == file_size
DedupDirect(w) ==
  /\ mainpc = "map"
  /\ worker[w].pc = "dedup_direct"
  /\ LET wk == worker[w]
         f == wk.file
         call == Call("get_metadata", dest_full_path(f), Read(f, 0, 0, 0), 0)
     IN \E err \in ReadErrors :
          /\ obs' = [obs EXCEPT ![f].calls = Append(@, call),
                                ![f].retry = NoRetry,
                                ![f].removed = (err = None
                                   /\ DirectMatches(_get_server_file_size(remote, dest_full_path(f)), wk.file_size)
                                   /\ Removes(is_delete))]
          /\ IF err # None
             THEN Ends(w, f, "neterror") /\ UNCHANGED exists
             ELSE IF DirectMatches(_get_server_file_size(remote, dest_full_path(f)), wk.file_size)
             THEN Skips(w, f)
             ELSE /\ Continues(w, [wk EXCEPT !.pc = IF MetaLookupNeeded(wk.meta_svr_path)
                                                     THEN "dedup_meta" ELSE "open"])
                  /\ UNCHANGED exists
  /\ UNCHANGED <<local, dirs, remote, sessions, run, mainpc, dir, queue>>

\* _get_server_file_size(dbx, meta_svr_path) == file_size
DedupMeta(w) ==
  /\ mainpc = "map"
  /\ worker[w].pc = "dedup_meta"
  /\ LET wk == worker[w]
         f == wk.file
         call == Call("get_metadata", wk.meta_svr_path, Read(f, 0, 0, 0), 0)
     IN \E err \in ReadErrors :
          /\ obs' = [obs EXCEPT ![f].calls = Append(@, call),
                                ![f].retry = NoRetry,
                                ![f].removed = (err = None
                                   /\ MetaMatches(_get_server_file_size(remote, wk.meta_svr_path), wk.file_size)
                                   /\ Removes(is_delete))]
          /\ IF err # None
             THEN Ends(w, f, "neterror") /\ UNCHANGED exists
             ELSE IF MetaMatches(_get_server_file_size(remote, wk.meta_svr_path), wk.file_size)
             THEN Skips(w, f)
             ELSE Continues(w, [wk EXCEPT !.pc = "open"]) /\ UNCHANGED exists
  /\ UNCHANGED <<local, dirs, remote, sessions, run, mainpc, dir, queue>>

\* The else branch up to the first remote call: open the file and read the
\* first chunk (_chunk_upload) or all of it (files_upload).
OpenFile(w) ==
  /\ mainpc = "map"
  /\ worker[w].pc = "open"
  /\ LET wk == worker[w]
         f == wk.file
     IN \E io \in {"ok", "OSError"} :
          IF io = "OSError"
          THEN Ends(w, f, UploadEnd("OSError"))
          ELSE IF IsChunked(wk.file_size)
          THEN LET d == Read(f, wk.file_size, 0, MAX_UPLOAD_CHUNK_SIZE)
               IN Continues(w, [wk EXCEPT !.pc = "session_start", !.data = d,
                                          !.tell = d.len, !.uploaded_full_path = NoPath])
          ELSE LET d == Read(f, wk.file_size, 0, wk.file_size)
               IN Continues(w, [wk EXCEPT !.pc = "files_upload", !.data = d,
                                          !.tell = d.len,
                                          !.uploaded_full_path = dest_full_path(f)])
  /\ UNCHANGED <<local, exists, dirs, remote, sessions, run, mainpc, dir, queue, obs>>

\* upload_session_start_result = _auto_retry(dbx.files_upload_session_start, data)
\* and the cursor built from the result.
SessionStart(w) ==
  /\ mainpc = "map"
  /\ worker[w].pc = "session_start"
  /\ LET wk == worker[w]
         f == wk.file
         call == Call("session_start", NoPath, wk.data, 0)
     IN \E nets \in UploadNets(wk.lost) :
          \E r \in {_auto_retry(Store, Request("session_start", w, wk, 0), nets, 0, 0)} :
             /\ sessions' = r.srv.sessions
             /\ obs' = [obs EXCEPT ![f] = Logged(@, call, r)]
             /\ IF r.act = "return"
                THEN Continues(w, [wk EXCEPT !.pc = "loop", !.session_id = r.reply[1],
                                             !.offset = wk.tell,
                                             !.lost = @ + RepliesLost(nets)])
                ELSE Excepts(w, wk, r.exc)
  /\ UNCHANGED <<local, exists, dirs, remote, run, mainpc, dir, queue>>

\* while file_obj.tell() < file_size: the branch is chosen and the next chunk
\* read; after the loop _chunk_upload returns uploaded_file_path.
ChunkLoop(w) ==
  /\ mainpc = "map"
  /\ worker[w].pc = "loop"
  /\ LET wk == worker[w]
         f == wk.file
         d == Read(f, wk.file_size, wk.tell, MAX_UPLOAD_CHUNK_SIZE)
     IN /\ obs' = [obs EXCEPT ![f].retry = NoRetry]
        /\ IF wk.tell < wk.file_size
           THEN \E io \in {"ok", "OSError"} :
                  IF io = "OSError"
                  THEN Ends(w, f, UploadEnd("OSError"))
                  ELSE Continues(w, [wk EXCEPT !.pc = IF IsLastChunk(wk.file_size, wk.tell)
                                                      THEN "session_finish"
                                                      ELSE "session_append",
                                               !.data = d, !.tell = @ + d.len])
           ELSE AfterTry(w, wk, wk.uploaded_full_path)
  /\ UNCHANGED <<local, exists, dirs, remote, sessions, run, mainpc, dir, queue>>

\* _auto_retry(dbx.files_upload_session_append, data, cursor.session_id,
\* cursor.offset), then cursor.offset = file_obj.tell() and the progress line.
SessionAppend(w) ==
  /\ mainpc = "map"
  /\ worker[w].pc = "session_append"
  /\ LET wk == worker[w]
         f == wk.file
         call == Call("session_append", NoPath, wk.data, wk.offset)
         offset == AdvanceCursor(wk.offset, wk.tell)
     IN \E nets \in UploadNets(wk.lost) :
          \E r \in {_auto_retry(Store, Request("session_append", w, wk, 0), nets, 0, 0)} :
             /\ sessions' = r.srv.sessions
             /\ obs' = [obs EXCEPT ![f] =
                          [Logged(@, call, r) EXCEPT
                             !.progress = IF r.act = "return" THEN Append(@, offset) ELSE @]]
             /\ IF r.act = "return"
                THEN Continues(w, [wk EXCEPT !.pc = "loop", !.offset = offset,
                                             !.lost = @ + RepliesLost(nets)])
                ELSE Excepts(w, wk, r.exc)
  /\ UNCHANGED <<local, exists, dirs, remote, run, mainpc, dir, queue>>

\* metadata = _auto_retry(dbx.files_upload_session_finish, data, cursor, commit),
\* uploaded_file_path = metadata.path_lower and the progress line.
SessionFinish(w) ==
  /\ mainpc = "map"
  /\ worker[w].pc = "session_finish"
  /\ LET wk == worker[w]
         f == wk.file
         call == Call("session_finish", dest_full_path(f), wk.data, wk.offset)
     IN \E nets \in UploadNets(wk.lost), stored \in StoredSizes(wk.offset + wk.data.len) :
          \E r \in {_auto_retry(Store, Request("session_finish", w, wk, stored), nets, 0, 0)} :
             /\ sessions' = r.srv.sessions
             /\ remote' = r.srv.remote
             /\ obs' = [obs EXCEPT ![f] =
                          [Logged(@, call, r) EXCEPT
                             !.progress = IF r.act = "return" THEN Append(@, wk.offset) ELSE @,
                             !.uploaded = IF r.act = "return" THEN r.reply ELSE @]]
             /\ IF r.act = "return"
                THEN Continues(w, [wk EXCEPT !.pc = "loop", !.uploaded_full_path = r.reply])
                ELSE Excepts(w, wk, r.exc)
  /\ UNCHANGED <<local, exists, dirs, run, mainpc, dir, queue>>

\* metadata = _auto_retry(dbx.files_upload, local_file.read(), dest_full_path,
\* autorename=True) and uploaded_full_path = metadata.path_lower
SingleShot(w) ==
  /\ mainpc = "map"
  /\ worker[w].pc = "files_upload"
  /\ LET wk == worker[w]
         f == wk.file
         call == Call("files_upload", dest_full_path(f), wk.data, 0)
     IN \E nets \in UploadNets(wk.lost), stored \in StoredSizes(wk.data.len) :
          \E r \in {_auto_retry(Store, Request("files_upload", w, wk, stored), nets, 0, 0)} :
             /\ remote' = r.srv.remote
             /\ obs' = [obs EXCEPT ![f] =
                          [Logged(@, call, r) EXCEPT
                             !.uploaded = IF r.act = "return" THEN r.reply ELSE @]]
             /\ IF r.act = "return" THEN AfterTry(w, wk, r.reply) ELSE Excepts(w, wk, r.exc)
  /\ UNCHANGED <<local, exists, dirs, sessions, run, mainpc, dir, queue>>

\* VerifiedPath looking up the path requested instead of the path returned
VerifiedPathRequested(requested, returned) == requested

\* The path of uploaded_size = _get_server_file_size(dbx, uploaded_full_path)
VerifiedPath(requested, returned) == returned

\* uploaded_size = _get_server_file_size(dbx, uploaded_full_path), the check of
\* the size, and the removal of the local file when asked for.
Verify(w) ==
  /\ mainpc = "map"
  /\ worker[w].pc = "verify"
  /\ LET wk == worker[w]
         f == wk.file
         path == VerifiedPath(dest_full_path(f), wk.uploaded_full_path)
         call == Call("get_metadata", path, Read(f, 0, 0, 0), 0)
         uploaded_size == _get_server_file_size(remote, path)
     IN \E err \in ReadErrors :
          IF err # None
          THEN /\ Ends(w, f, "neterror")
               /\ obs' = [obs EXCEPT ![f].calls = Append(@, call), ![f].retry = NoRetry]
               /\ UNCHANGED exists
          ELSE IF SizeMismatch(uploaded_size, wk.file_size)
          THEN /\ Ends(w, f, "mismatch")
               /\ obs' = [obs EXCEPT ![f].calls = Append(@, call), ![f].retry = NoRetry,
                                     ![f].checked = uploaded_size]
               /\ UNCHANGED exists
          ELSE /\ Ends(w, f, "uploaded")
               /\ obs' = [obs EXCEPT ![f].calls = Append(@, call), ![f].retry = NoRetry,
                                     ![f].checked = uploaded_size,
                                     ![f].removed = Removes(is_delete)]
               /\ RemoveLocal(f)
  /\ UNCHANGED <<local, dirs, remote, sessions, run, mainpc, dir, queue>>

-----------------------------------------------------------------------------

Next ==
  \/ MainWalk
  \/ MainMapDone
  \/ \E w \in Workers :
       \/ TaskBegin(w)
       \/ DedupDirect(w)
       \/ DedupMeta(w)
       \/ OpenFile(w)
       \/ SessionStart(w)
       \/ ChunkLoop(w)
       \/ SessionAppend(w)
       \/ SessionFinish(w)
       \/ SingleShot(w)
       \/ Verify(w)

\* One run of the program on a library of one file.
Spec == Init /\ [][Next]_vars

\* A library of MaxFiles files, in one directory or more, a single-shot size
\* and a chunked one, up to MaxThreads pool threads.
InitPool == InitLibrary(Files, {1, 5}, {"P"}, {0}, MaxThreads)

SpecPool == InitPool /\ [][Next]_vars

\* The program run MaxRuns times on that library.
SpecRerun == Init /\ [][Next \/ StartRun]_vars

-----------------------------------------------------------------------------
(* _auto_retry(), one pass of its loop at a time *)

\* What the network may do to the invocations of one call: replies lost, then
\* failures of one kind, up to one more than the ceiling, then a request served
\* or rejected.
ProbeNets ==
  {Repeat("reply_lost", a) \o Repeat(x, b) \o <<last>> :
     a \in 0..MaxLostReplies, x \in {"lost", "reset"},
     b \in 0..(MAX_RETRY_COUNT_ON_NETWORK_ERROR + 1), last \in {"ok", "reject"}}

\* The call followed: a single-shot upload of one unit to a free path.
ProbeRequest ==
  [name |-> "files_upload", by |-> 1, data |-> Read(1, 1, 0, 1), session_id |-> 0,
   offset |-> 0, path |-> dest_full_path(1), stored |-> 1]

\* try: return func(*args, **kwargs) except ...: one invocation and what the
\* wrapper does with its outcome.
ProbeInvoke ==
  /\ probe.act = "running"
  /\ LET inv == Invoke(probe.srv, ProbeRequest,
                       IF probe.nets = <<>> THEN "ok" ELSE Head(probe.nets))
         h == Handle(probe.retry_count, inv.err)
     IN probe' = [probe EXCEPT
                    !.nets = IF @ = <<>> THEN <<>> ELSE Tail(@),
                    !.srv = inv.srv,
                    !.retry_count = h.retry_count,
                    !.n = @ + 1,
                    !.seen = Append(@, inv.err),
                    !.act = IF h.act = "retry" THEN "running" ELSE h.act,
                    !.exc = h.exc,
                    !.reply = inv.reply]
  /\ UNCHANGED <<is_delete, threads, library, size, stamp, dirOf, exists, dirs, remote,
                 sessions, run, mainpc, dir, queue, failed, worker, result, backed,
                 obs, fix>>

\* No library and no pass: only the call.
Quiet ==
  /\ library = {}
  /\ is_delete = FALSE
  /\ threads = 1
  /\ size = [f \in Files |-> 0]
  /\ stamp = [f \in Files |-> "NoTag"]
  /\ dirOf = [f \in Files |-> 1]
  /\ exists = [f \in Files |-> FALSE]
  /\ dirs = {}
  /\ sessions = <<>>
  /\ run = 1
  /\ dir = 1
  /\ queue = <<>>
  /\ failed = FALSE
  /\ worker = [w \in Workers |-> Idle]
  /\ result = NoResult
  /\ backed = [f \in Files |-> FALSE]
  /\ obs = [f \in Files |-> NoObs]

InitRetry ==
  /\ Quiet
  /\ remote = <<>>
  /\ mainpc = "off"
  /\ fix = NoFix
  /\ \E nets \in ProbeNets :
       probe = [NoProbe EXCEPT !.scenario = nets, !.nets = nets, !.act = "running"]

SpecRetry == InitRetry /\ [][ProbeInvoke]_vars

-----------------------------------------------------------------------------
(* The relocation pass: main() with --fix *)

\* A listed entry: a folder, or a file whose media info is absent ("none"),
\* pending ("pending"), present without a capture time ("notime") or present
\* with a capture time whose date folder is "P", the folder listed, or "Q".
Media == {"none", "pending", "notime", "P", "Q"}

Entry(kind, name, media) ==
  [kind |-> kind, name |-> name, path_lower |-> <<"P", name, 0>>, media |-> media]

\* isinstance(metadata, dropbox.files.FileMetadata) and metadata.media_info and
\* metadata.media_info.is_metadata()
HasMediaMetadata(entry) == entry.kind = "file" /\ entry.media \notin {"none", "pending"}

\* if media.time_taken
HasTimeTaken(entry) == entry.media # "notime"

\* dest = "/Photos/{}/{:02}/{:02}/{}".format(year, month, day, metadata.name)
CanonicalPath(entry) == <<entry.media, entry.name, 0>>

\* IssuesMove without the test of time_taken
IssuesMoveWithoutTime(entry) == HasMediaMetadata(entry)

\* Whether _fix_file calls dbx.files_move(src, dest) for the entry.
IssuesMove(entry) == HasMediaMetadata(entry) /\ HasTimeTaken(entry)

\* files_move(src, dest): refused (ApiError) unless src holds an object and dest
\* holds none.
MoveAccepted(store, src, dest) == src \in DOMAIN store /\ dest \notin DOMAIN store

\* How the files_move call ends: a network error, the server's refusal, or done.
MoveError(net, store, src, dest) ==
  IF NetError(net) # None THEN NetError(net)
  ELSE IF MoveAccepted(store, src, dest) THEN None ELSE "ApiError"

Moved(store, src, dest) ==
  [p \in (DOMAIN store \ {src}) \cup {dest} |-> IF p = dest THEN store[src] ELSE store[p]]

\* result = dbx.files_list_folder(root_path, include_media_info=True), which may
\* raise, and the first page.
FixList ==
  /\ mainpc = "fix"
  /\ fix.pc = "list"
  /\ \E net \in {"ok", "lost"} :
       fix' = IF net = "lost" THEN [fix EXCEPT !.pc = "raised"]
              ELSE [fix EXCEPT !.pc = "entries", !.entries = Head(fix.pages),
                               !.has_more = Len(fix.pages) > 1, !.pages = Tail(@),
                               !.idx = 1, !.fetched = 1]
  /\ UNCHANGED <<others, remote, mainpc>>

\* _fix_file(dbx, entry) for the next entry of the page: the move when the entry
\* has a capture time, refused by the server (ApiError, caught) or made; a
\* network error is not caught.
FixFile ==
  /\ mainpc = "fix"
  /\ fix.pc = "entries"
  /\ fix.idx <= Len(fix.entries)
  /\ LET entry == fix.entries[fix.idx]
         src == entry.path_lower
         dest == CanonicalPath(entry)
     IN IF IssuesMove(entry)
        THEN \E net \in {"ok", "lost"} :
               LET done == net = "ok" /\ MoveAccepted(remote, src, dest)
               IN /\ remote' = IF done THEN Moved(remote, src, dest) ELSE remote
                  /\ fix' = [fix EXCEPT
                               !.pc = IF net = "lost" THEN "raised" ELSE @,
                               !.idx = IF net = "lost" THEN @ ELSE @ + 1,
                               !.seen = Append(@, entry),
                               !.moves = Append(@, [src |-> src, dest |-> dest,
                                                    done |-> done,
                                                    err |-> MoveError(net, remote, src, dest)])]
        ELSE /\ fix' = [fix EXCEPT !.idx = @ + 1, !.seen = Append(@, entry)]
             /\ UNCHANGED remote
  /\ UNCHANGED <<others, mainpc>>

\* RequestsMore that never asks for a continuation page
RequestsNoMore(has_more) == FALSE

\* while result.has_more
RequestsMore(has_more) == has_more

\* while result.has_more: result = dbx.files_list_folder_continue(result.cursor);
\* without more, _fix_server_path returns and main() with it.
FixMore ==
  /\ mainpc = "fix"
  /\ fix.pc = "entries"
  /\ fix.idx > Len(fix.entries)
  /\ IF RequestsMore(fix.has_more)
     THEN /\ \E net \in {"ok", "lost"} :
               fix' = IF net = "lost" THEN [fix EXCEPT !.pc = "raised"]
                      ELSE [fix EXCEPT !.entries = Head(fix.pages),
                                       !.has_more = Len(fix.pages) > 1,
                                       !.pages = Tail(@), !.idx = 1, !.fetched = @ + 1]
          /\ UNCHANGED mainpc
     ELSE /\ fix' = [fix EXCEPT !.pc = "returned"]
          /\ mainpc' = "done"
  /\ UNCHANGED <<others, remote>>

MaxEntries == 3
MaxPages == 2

EntryKinds ==
  {[kind |-> "folder", media |-> "none"]} \cup {[kind |-> "file", media |-> m] : m \in Media}

\* The listings the server may give: up to MaxEntries entries, named 1, 2, ...,
\* cut into one page or more, up to MaxPages, any of them empty.
Listings ==
  UNION {
    {[k \in 1..np |-> SubSeq([i \in 1..n |-> Entry(kinds[i].kind, i, kinds[i].media)],
                             cut[k - 1] + 1, cut[k])] :
       kinds \in [1..n -> EntryKinds],
       cut \in {c \in [0..np -> 0..n] :
                  c[0] = 0 /\ c[np] = n /\ \A a \in 1..np : c[a - 1] <= c[a]}} :
    n \in 0..MaxEntries, np \in 1..MaxPages}

Listed(pages) == UNION {{pages[k][j] : j \in DOMAIN pages[k]} : k \in DOMAIN pages}

\* The pass starts on a listing whose files are in the store at the paths
\* listed; the date folder "Q" may already hold an object of the same name.
InitFix ==
  /\ Quiet
  /\ mainpc = "fix"
  /\ probe = NoProbe
  /\ \E pages \in Listings :
       /\ fix = [NoFix EXCEPT !.pc = "list", !.pages = pages]
       /\ \E taken \in SUBSET {e.name : e \in {x \in Listed(pages) : x.media = "Q"}} :
            remote = [p \in {e.path_lower : e \in {x \in Listed(pages) : x.kind = "file"}}
                             \cup {<<"Q", i, 0>> : i \in taken} |-> 1]

NextFix == FixList \/ FixFile \/ FixMore

SpecFix == InitFix /\ [][NextFix]_vars

-----------------------------------------------------------------------------
(* Properties of the upload pipeline *)

\* The remote calls of the latest upload() of f that are not metadata lookups.
Writes(f) == {i \in DOMAIN obs[f].calls : obs[f].calls[i].name # "get_metadata"}

\* C1: a file whose byte size equals the size of the remote object found at the
\* direct path or at the canonical path when upload() began is not uploaded: no
\* files_upload and no session call is issued for it, only metadata lookups.
C1_MatchIsSkipped ==
  \A f \in library :
    (obs[f].direct = size[f] \/ obs[f].canon = size[f])
      => Writes(f) = {} /\ result[f] \notin {"uploaded", "mismatch", "rejected", "exhausted"}

\* C1 witness: the direct path holds another size, the canonical path the same
\* size, and upload() ended in the already-exists branch after the two lookups.
C1_SkippedOnCanonical ==
  /\ result[1] = "skipped"
  /\ obs[1].direct # size[1]
  /\ obs[1].canon = size[1]
  /\ Len(obs[1].calls) = 2

\* C2, as stated: once a run has uploaded a file and verified its size, a later
\* run of upload() on the same file issues no upload call for it, whatever the
\* remote store held at first.
C2_SecondRunSkips ==
  \A f \in library : backed[f] => Writes(f) = {}

\* The size the dedup check got for a candidate path: the failed lookup of a
\* path without object counts as 0.
Reported(found) == IF found = NotFound THEN 0 ELSE found

\* C3, as stated: the local file is removed only with the delete flag set and
\* only after an upload of it succeeded and the size verification passed.
C3_RemovedOnlyAfterVerifiedUpload ==
  \A f \in library :
    ~exists[f] => is_delete /\ obs[f].uploaded # NoPath /\ obs[f].checked = size[f]

\* C3, amended: the local file is removed only with the delete flag set, and only
\* after the dedup check reported the local size for a candidate path (no upload
\* made) or after an upload whose returned path was then found to hold the local
\* size; and when the verification finds another size, upload() raises with the
\* local file still on disk.
C3_RemovedOnlyAfterMatchOrVerifiedUpload ==
  \A f \in library :
    /\ ~exists[f] =>
         /\ is_delete
         /\ \/ /\ result[f] = "skipped"
               /\ Writes(f) = {}
               /\ \/ Reported(obs[f].direct) = size[f]
                  \/ stamp[f] \in {"P", "Q"} /\ Reported(obs[f].canon) = size[f]
            \/ /\ result[f] = "uploaded"
               /\ obs[f].uploaded # NoPath
               /\ obs[f].checked = size[f]
    /\ obs[f].checked \notin {Unchecked, size[f]} => result[f] = "mismatch" /\ exists[f] /\ failed

\* C3 witness: with the delete flag, the file was uploaded, the returned path
\* was found to hold its size, and the file was removed.
C3_RemovedAfterVerifiedUpload ==
  /\ is_delete
  /\ result[1] = "uploaded"
  /\ obs[1].checked = size[1]
  /\ obs[1].removed
  /\ ~exists[1]

\* C4: in a chunked upload each session-append is passed the offset of the call
\* before it plus the bytes that call sent (after the session start: the bytes of
\* the start), so the offsets increase strictly, and the session-finish is issued
\* only when what is left unread is what it carries, at most one chunk.
C4_OffsetsContiguous ==
  \A f \in library : \A i \in DOMAIN obs[f].calls :
    LET c == obs[f].calls[i]
        prev == obs[f].calls[i - 1]
    IN /\ c.name \in {"session_append", "session_finish"} =>
            /\ i > 1
            /\ size[f] > MAX_UPLOAD_CHUNK_SIZE
            /\ prev.name \in {"session_start", "session_append"}
            /\ prev.bytes > 0
            /\ c.offset = prev.offset + prev.bytes
            /\ c.offset > prev.offset
       /\ c.name = "session_append" => size[f] - c.offset > MAX_UPLOAD_CHUNK_SIZE
       /\ c.name = "session_finish" =>
            /\ size[f] - c.offset <= MAX_UPLOAD_CHUNK_SIZE
            /\ c.bytes = size[f] - c.offset

\* C4 witness: an upload of two appends and a finish that was verified.
C4_TwoAppendsThenFinish ==
  /\ result[1] = "uploaded"
  /\ Cardinality({i \in DOMAIN obs[1].calls : obs[1].calls[i].name = "session_append"}) = 2
  /\ \E i \in DOMAIN obs[1].calls : obs[1].calls[i].name = "session_finish"

-----------------------------------------------------------------------------
(* Properties of _auto_retry, of the pool and of the relocation pass *)

\* C5: _auto_retry invokes the operation again after a failure exactly when the
\* failure is a ConnectionError or a ProtocolError and fewer than
\* MAX_RETRY_COUNT_ON_NETWORK_ERROR invocations have failed: another error
\* propagates from the invocation that met it, a success at invocation k returns
\* the reply of that invocation after exactly k invocations, and the 10th
\* failure in a row ends the call with a raise, without an 11th invocation.
C5_RetriesOnlyTransientBelowCeiling ==
  LET n == probe.n
      seen == probe.seen
      scenario == probe.scenario
  IN probe.act # "off" =>
       /\ n = Len(seen)
       /\ n <= MAX_RETRY_COUNT_ON_NETWORK_ERROR
       /\ probe.act = "running" <=>
            /\ \A i \in 1..n : IsTransient(seen[i])
            /\ n < MAX_RETRY_COUNT_ON_NETWORK_ERROR
       /\ probe.act = "return" <=> (n >= 1 /\ seen[n] = None)
       /\ probe.act = "return" =>
            /\ scenario[n] = "ok"
            /\ \A i \in 1..(n - 1) : scenario[i] \notin {"ok", "reject"}
            /\ probe.reply = <<"P", 1, Cardinality({i \in 1..(n - 1) : Served(scenario[i])})>>
            /\ probe.reply \in DOMAIN probe.srv.remote
       /\ (n >= 1 /\ ~IsTransient(seen[n]) /\ seen[n] # None) =>
            /\ probe.act = "raise"
            /\ probe.exc = seen[n]
            /\ scenario[n] = "reject"
            /\ \A i \in 1..(n - 1) : scenario[i] \notin {"ok", "reject"}
       /\ (n = MAX_RETRY_COUNT_ON_NETWORK_ERROR /\ \A i \in 1..n : IsTransient(seen[i])) =>
            probe.act = "raise"

\* C5 witness: ten invocations, each failed with a network error, and the call
\* ended with a raise.
C5_TenFailuresThenRaise ==
  /\ probe.act = "raise"
  /\ probe.n = MAX_RETRY_COUNT_ON_NETWORK_ERROR
  /\ \A i \in 1..probe.n : IsTransient(probe.seen[i])

\* C6, as stated: what _auto_retry raises is the error of the last invocation,
\* also when that is the network error of the 10th failed invocation.
C6_PropagatesTheNetworkError ==
  probe.act = "raise" => probe.exc = Last(probe.seen)

\* C7, as stated: unless a task failed reading its local file, main() ends, by
\* return or by an exception, only after upload() has run to its end for every
\* file of the library.
C7_FailureSparesSiblings ==
  mainpc \in {"done", "raised"} =>
    \/ \E f \in library : result[f] = "ioerror"
    \/ \A f \in library : result[f] \in Returning \cup Raising

\* C8: when _auto_retry ends a write call of upload() (files_upload, session
\* start, append or finish) with ApiError, upload() returns without raising,
\* that call is its last remote call (no size verification), and the local file
\* stays on disk also with the delete flag.
C8_RejectionReturnsQuietly ==
  \A f \in library :
    obs[f].retry.exc = "ApiError" =>
      /\ obs[f].retry.call \in {"files_upload", "session_start", "session_append", "session_finish"}
      /\ Last(obs[f].calls).name = obs[f].retry.call
      /\ result[f] = "rejected"
      /\ ~failed
      /\ \A w \in Workers : worker[w].file # f
      /\ obs[f].checked = Unchecked
      /\ ~obs[f].removed
      /\ exists[f]

\* C8 witness: with the delete flag, an append was rejected and upload() returned.
C8_AppendRejected ==
  /\ is_delete
  /\ obs[1].retry.call = "session_append"
  /\ obs[1].retry.exc = "ApiError"
  /\ result[1] = "rejected"
  /\ exists[1]

\* C9, as stated: once the server has returned the path of the uploaded object,
\* upload() does not end with a network error: the size re-query, like the write
\* calls, is retried on a ConnectionError or ProtocolError.
C9_RequeryIsRetried ==
  \A f \in library : obs[f].uploaded # NoPath => result[f] # "neterror"

\* C10, as stated: _fix_file calls files_move only with a destination that
\* differs from the object's current path.
C10_NoMoveOntoItself ==
  \A i \in DOMAIN fix.moves : fix.moves[i].src # fix.moves[i].dest

RECURSIVE Flatten(_)
Flatten(pp) == IF pp = <<>> THEN <<>> ELSE Head(pp) \o Flatten(Tail(pp))

\* The entries _fix_server_path has still to hand to _fix_file: the rest of the
\* page it is at and the pages the server has not given yet.
Todo ==
  (IF fix.pc = "entries" THEN SubSeq(fix.entries, fix.idx, Len(fix.entries)) ELSE <<>>)
    \o Flatten(fix.pages)

\* C11: _fix_server_path hands every entry of the first page and of every
\* continuation page to _fix_file exactly once, in the order listed; it asks for
\* a continuation exactly while the last result has more, and returns once a
\* result has no more, with nothing left unprocessed, empty pages included.
C11_EveryEntryOnce ==
  /\ \A i \in DOMAIN fix.seen : fix.seen[i].name = i
  /\ fix.pc = "entries" =>
       /\ \A i \in DOMAIN (fix.seen \o Todo) : (fix.seen \o Todo)[i].name = i
       /\ fix.has_more = (fix.pages # <<>>)
       /\ fix.fetched >= 1
  /\ fix.pc = "returned" =>
       /\ Todo = <<>>
       /\ ~fix.has_more
       /\ fix.idx = Len(fix.entries) + 1
       /\ mainpc = "done"

\* C11 witness: the pass returned after two pages and three entries.
C11_ReturnedAfterTwoPages ==
  /\ fix.pc = "returned"
  /\ fix.fetched = 2
  /\ Len(fix.seen) = 3

\* C12: an entry without a capture time gets no move call and its object stays
\* at its path; an object whose move the server refuses stays at its path; and
\* the scan stops inside _fix_file only on a network error of a move call, so
\* after either obstacle the later entries and pages are still processed.
C12_ObstaclesDoNotStopTheScan ==
  /\ \A i \in DOMAIN fix.seen :
       LET e == fix.seen[i]
       IN (e.kind = "file" /\ e.media \notin {"P", "Q"}) =>
            /\ \A j \in DOMAIN fix.moves : fix.moves[j].src # e.path_lower
            /\ e.path_lower \in DOMAIN remote
  /\ \A j \in DOMAIN fix.moves :
       fix.moves[j].err = "ApiError" =>
         /\ ~fix.moves[j].done
         /\ fix.moves[j].src \in DOMAIN remote
  /\ (fix.pc = "raised" /\ fix.fetched >= 1 /\ fix.idx <= Len(fix.entries)) =>
       /\ fix.moves # <<>>
       /\ IsTransient(Last(fix.moves).err)
       /\ Last(fix.moves).src = fix.entries[fix.idx].path_lower

\* C12 witness: the pass returned after an entry without capture time, an entry
\* whose move was refused for an occupied destination, and a later page.
C12_ReturnedPastBothObstacles ==
  /\ fix.pc = "returned"
  /\ Len(fix.seen) = 3
  /\ fix.fetched = 2
  /\ \E i \in 1..2 : fix.seen[i].kind = "file" /\ fix.seen[i].media = "notime"
  /\ \E j \in DOMAIN fix.moves :
       /\ fix.moves[j].err = "ApiError"
       /\ fix.moves[j].src # fix.moves[j].dest
       /\ fix.moves[j].src # Last(fix.seen).path_lower

-----------------------------------------------------------------------------
(* More properties of the upload pipeline *)

IsWrite(c) == c.name # "get_metadata"

\* The write calls upload() has issued for f, each with the bytes it carries.
WriteSeq(f) ==
  LET w == SelectSeq(obs[f].calls, IsWrite)
  IN [i \in DOMAIN w |-> [name |-> w[i].name, bytes |-> w[i].bytes]]

Ceil(S, C) == (S + C - 1) \div C

\* The write calls for S bytes with chunks of C bytes.
Determined(S, C) ==
  IF S <= C THEN <<[name |-> "files_upload", bytes |-> S]>>
  ELSE <<[name |-> "session_start", bytes |-> C]>>
       \o [i \in 1..(Ceil(S, C) - 2) |-> [name |-> "session_append", bytes |-> C]]
       \o <<[name |-> "session_finish", bytes |-> S - C * (Ceil(S, C) - 1)]>>

RECURSIVE SumBytes(_)
SumBytes(w) == IF w = <<>> THEN 0 ELSE Head(w).bytes + SumBytes(Tail(w))

\* C13: the write calls upload() issues for a file of S bytes are determined by
\* S and the chunk size C: what has been issued is at every moment the beginning
\* of the sequence (one files_upload for S <= C; else a start of C bytes,
\* ceil(S/C) - 2 appends of C bytes and a finish of the rest), and once the last
\* call has returned it is the whole sequence, carrying S bytes, with only the
\* size lookup after it.
C13_WritesDetermined ==
  \A f \in library :
    LET w == WriteSeq(f)
        d == Determined(size[f], MAX_UPLOAD_CHUNK_SIZE)
    IN /\ Len(w) <= Len(d)
       /\ w = SubSeq(d, 1, Len(w))
       /\ (obs[f].uploaded # NoPath \/ result[f] \in {"uploaded", "mismatch"}) =>
            /\ w = d
            /\ SumBytes(w) = size[f]

\* C13 witness: a file of 7 units was uploaded with a start, two appends and a
\* finish of one unit.
C13_SevenUnitsInFourCalls ==
  /\ result[1] = "uploaded"
  /\ size[1] = 7
  /\ Len(WriteSeq(1)) = 4
  /\ Last(WriteSeq(1)) = [name |-> "session_finish", bytes |-> 1]

\* C14, as stated: every progress line of _chunk_upload, the one after the
\* finish call included, reports the number of bytes sent so far, and the last
\* one of a completed upload reports the size of the file.
C14_ProgressIsCumulative ==
  \A f \in library :
    /\ \A i \in DOMAIN obs[f].progress :
         obs[f].progress[i] = SumBytes(SubSeq(WriteSeq(f), 1, i + 1))
    /\ (obs[f].uploaded # NoPath /\ obs[f].progress # <<>>) =>
         Last(obs[f].progress) = size[f]

InSession(w) == worker[w].pc \in {"loop", "session_append", "session_finish"}

\* C15: with several pool threads, a thread that is in a session is in the
\* session it started, on the file of its own task; no two threads are in the
\* same session; and every chunk a session has accepted comes from the file of
\* the task that started it, so each call on a session was issued by its
\* starter, one call at a time.
C15_SessionsAreNotShared ==
  /\ \A w \in Workers :
       InSession(w) =>
         /\ worker[w].session_id \in DOMAIN sessions
         /\ sessions[worker[w].session_id].by = w
         /\ sessions[worker[w].session_id].chunks[1].file = worker[w].file
         /\ worker[w].offset <= sessions[worker[w].session_id].cursor
  /\ \A w1, w2 \in Workers :
       (w1 # w2 /\ InSession(w1) /\ InSession(w2)) =>
         worker[w1].session_id # worker[w2].session_id
  /\ \A sid \in DOMAIN sessions : \A i \in DOMAIN sessions[sid].chunks :
       sessions[sid].chunks[i].file = sessions[sid].chunks[1].file

\* C15 witness: two threads are in two sessions at once, each past an append.
C15_TwoSessionsAtOnce ==
  /\ InSession(1) /\ InSession(2)
  /\ Len(sessions[worker[1].session_id].chunks) = 2
  /\ Len(sessions[worker[2].session_id].chunks) = 2

\* C16: the size verification looks up the path the server returned for the
\* upload, and the size it compares is that of the object at that path; when
\* the requested path was occupied, this is the renamed path, not the requested.
C16_VerifiesReturnedPath ==
  \A f \in library :
    obs[f].checked # Unchecked =>
      /\ obs[f].uploaded # NoPath
      /\ Last(obs[f].calls).name = "get_metadata"
      /\ Last(obs[f].calls).path = obs[f].uploaded
      /\ obs[f].uploaded \in DOMAIN remote
      /\ obs[f].checked = remote[obs[f].uploaded]
      /\ obs[f].direct # NotFound =>
           /\ obs[f].uploaded # dest_full_path(f)
           /\ obs[f].uploaded[3] > 0

\* C16 witness: the requested path held another object, the upload landed at a
\* renamed path, and the verification found the local size there.
C16_VerifiedRenamed ==
  /\ result[1] = "uploaded"
  /\ obs[1].direct # NotFound
  /\ obs[1].uploaded = <<"P", 1, 1>>
  /\ obs[1].checked = size[1]

\* C17, as stated: when the extraction of the capture time gives nothing or
\* raises, upload() does not fail for it, and every lookup of the dedup check
\* is of the direct destination path.
C17_ExtractionFailureIsHarmless ==
  \A f \in library :
    stamp[f] \in {"NoTag", "Error"} =>
      /\ result[f] # "metaerror"
      /\ \A i \in DOMAIN obs[f].calls :
           (obs[f].calls[i].name = "get_metadata" /\ obs[f].uploaded = NoPath) =>
             obs[f].calls[i].path = dest_full_path(f)

\* The paths the claim names for f: direct, canonical, returned by the server.
Candidates(f) ==
  {dest_full_path(f)}
    \cup (IF stamp[f] \in {"P", "Q"} THEN {<<stamp[f], f, 0>>} ELSE {})
    \cup (IF obs[f].uploaded # NoPath THEN {obs[f].uploaded} ELSE {})

\* C18, as stated: when upload() has removed the local file, the remote store
\* holds an object of the file's size at the direct path, the canonical path or
\* the path the server returned.
C18_RemovedHasRemoteCopy ==
  \A f \in library :
    ~exists[f] =>
      \E p \in Candidates(f) \cap DOMAIN remote : remote[p] = size[f]

RECURSIVE SumLen(_)
SumLen(ch) == IF ch = <<>> THEN 0 ELSE Head(ch).len + SumLen(Tail(ch))

\* C19: the chunks a session has accepted are consecutive pieces of one file
\* from its first byte on, each starting where the one before ended, and the
\* chunks of a session whose finish was accepted make up the whole file; so
\* also when _auto_retry re-issued a call the server had already applied (a
\* re-issued start opens another session; a re-issued append or finish is
\* refused, its offset no longer being the cursor).
C19_AcceptedBytesAreTheFile ==
  \A sid \in DOMAIN sessions :
    LET ch == sessions[sid].chunks
    IN /\ \A i \in DOMAIN ch :
            /\ ch[i].file = ch[1].file
            /\ ch[i].from = SumLen(SubSeq(ch, 1, i - 1))
            /\ ch[i].len > 0
       /\ sessions[sid].cursor = SumLen(ch)
       /\ sessions[sid].closed => SumLen(ch) = size[ch[1].file]

\* C19 witness: the reply of the session start was lost and the start
\* re-issued; the second session took a start, two appends and the finish, and
\* the upload was verified.
C19_UploadedAfterLostReply ==
  /\ Len(sessions) = 2
  /\ ~sessions[1].closed
  /\ sessions[2].closed
  /\ Len(sessions[2].chunks) = 4
  /\ result[1] = "uploaded"

====
